---- MODULE Spec2Model ----
(***************************************************************************)
(* Model of the recursive-descent parser of src/lib.rs (Parser<T> over a   *)
(* Peekable<T: Iterator<Item = char>>).  The call stack of the recursive   *)
(* descent is explicit: every function of the impl block is a kind of      *)
(* frame, and every action is one control step of one function.  The       *)
(* character source is an iterator: it hands out its characters one at a   *)
(* time, when the parser pulls them (peek() or next()).                    *)
(***************************************************************************)
EXTENDS Integers, Sequences, FiniteSets, TLC

\* ------------------------------------------------------------ bounds
\* How many characters a free source may yield, per alphabet.
MaxLen == 4
MaxLenArr == 7
MaxLenObj == 7
MaxLenNum == 5
MaxLenStr == 5
\* How many members a generated object has at most.
MaxMembers == 3

\* ------------------------------------------------------- characters
None == "None"

Digits == {"0", "1", "2", "3", "4", "5", "6", "7", "8", "9"}

DigitVal == ("0" :> 0) @@ ("1" :> 1) @@ ("2" :> 2) @@ ("3" :> 3) @@ ("4" :> 4)
            @@ ("5" :> 5) @@ ("6" :> 6) @@ ("7" :> 7) @@ ("8" :> 8) @@ ("9" :> 9)

Quote == "\""

\* IsSpace with the carriage return added to the whitespace
IsSpaceWithCR(c) == c \in {" ", "\n", "\t", "\r"}

\* skip_space: Some(' ' | '\n' | '\t')
IsSpace(c) == c \in {" ", "\n", "\t"}

\* value: '0'..='9'
IsDigit(c) == c \in Digits

\* number: '0'..='9' | '.'
IsNumChar(c) == IsDigit(c) \/ c = "."

\* string: each_char == '"'
IsStringEnd(c) == c = Quote

\* ------------------------------------------------------------ nodes
IntLiteral(n) == [tag |-> "IntLiteral", v |-> n]
FloatLiteral(d) == [tag |-> "FloatLiteral", v |-> d]
StringLiteral(s) == [tag |-> "StringLiteral", v |-> s]

\* the String that string() returns, before value() wraps it
String(s) == [tag |-> "String", v |-> s]
NullLiteral == [tag |-> "NullLiteral", v |-> <<>>]
BoolLiteral(b) == [tag |-> "BoolLiteral", v |-> b]
Object(m) == [tag |-> "Object", v |-> m]
Array(s) == [tag |-> "Array", v |-> s]

\* HashMap::new()
EmptyMap == [k \in {} |-> NullLiteral]

\* Insert keeping the entry a key already has
InsertIfAbsent(m, k, v) == [x \in DOMAIN m \cup {k} |-> IF x \in DOMAIN m THEN m[x] ELSE v]

\* HashMap::insert(key, value): the entry of key is replaced
Insert(m, k, v) == [x \in DOMAIN m \cup {k} |-> IF x = k THEN v ELSE m[x]]

\* Push at the front of the vector
PushFront(s, v) == <<v>> \o s

\* Vec::push(value)
Push(s, v) == Append(s, v)

\* ----------------------------------------------- numeric conversions
MaxI32 == 2147483647

RECURSIVE I32From(_, _, _)
\* str::parse::<i32>() on a text without sign: checked acc * 10 + digit
I32From(s, i, acc) ==
    IF i > Len(s) THEN [ok |-> TRUE, v |-> acc]
    ELSE IF ~IsDigit(s[i]) THEN [ok |-> FALSE, v |-> 0]
    ELSE IF acc > (MaxI32 - DigitVal[s[i]]) \div 10 THEN [ok |-> FALSE, v |-> 0]
    ELSE I32From(s, i + 1, acc * 10 + DigitVal[s[i]])

\* ParseI32 refusing every text of more than nine digits
ParseI32NineDigits(s) ==
    IF s = <<>> \/ Len(s) > 9 THEN [ok |-> FALSE, v |-> 0] ELSE I32From(s, 1, 0)

ParseI32(s) == IF s = <<>> THEN [ok |-> FALSE, v |-> 0] ELSE I32From(s, 1, 0)

RECURSIVE StripLeft(_)
StripLeft(s) == IF s # <<>> /\ Head(s) = "0" THEN StripLeft(Tail(s)) ELSE s

RECURSIVE StripRight(_)
StripRight(s) ==
    IF s # <<>> /\ s[Len(s)] = "0" THEN StripRight(SubSeq(s, 1, Len(s) - 1)) ELSE s

DotAt(s) == IF \E i \in 1..Len(s) : s[i] = "."
            THEN CHOOSE i \in 1..Len(s) : s[i] = "." /\ \A j \in 1..(i - 1) : s[j] # "."
            ELSE Len(s) + 1

\* str::parse::<f32>() on a text of digits and dots: at most one dot and at
\* least one digit.  The value is kept as the decimal the text denotes (integer
\* digits without leading zeros, fraction digits without trailing zeros), which
\* is the number f32 rounds; the rounding itself is not modelled.
ParseF32(s) ==
    LET dots == {i \in 1..Len(s) : s[i] = "."}
        digs == {i \in 1..Len(s) : IsDigit(s[i])}
    IN  IF Cardinality(dots) > 1 \/ digs = {} \/ Cardinality(dots) + Cardinality(digs) # Len(s)
        THEN [ok |-> FALSE, v |-> <<>>]
        ELSE [ok |-> TRUE,
              v |-> [int |-> StripLeft(SubSeq(s, 1, DotAt(s) - 1)),
                     frac |-> StripRight(SubSeq(s, DotAt(s) + 1, Len(s)))]]


\* ------------------------------------------------------------ state
VARIABLES
    text,      \* the characters pulled from the source so far, in order
    pos,       \* how many of them next() has consumed
    ended,     \* the source has returned None
    script,    \* a scripted source: the characters it still holds
    free,      \* a free source: how many more characters it may yield
    sigma,     \* a free source: the characters it draws from
    stack,     \* the call stack, innermost call last
    ret,       \* the value the last call returned
    panic,     \* "none", or the message of the panic that aborted the parse
    log,       \* every call that returned: function, depth, span, value
    results    \* the nodes parse() returned to the caller, in order

src == <<text, script, free, ended>>
vars == <<text, pos, ended, script, free, sigma, stack, ret, panic, log, results>>

\* ------------------------------------------------------- the source
\* What the next item of the Peekable can be: the buffered character, None
\* once the source has ended, else whatever the source yields next.
Items ==
    IF Len(text) > pos THEN {text[pos + 1]}
    ELSE IF ended THEN {None}
    ELSE IF script # <<>> THEN {Head(script)}
    ELSE (IF free > 0 THEN sigma ELSE {}) \cup {None}

\* The item c is looked at: it is pulled from the source unless it is buffered.
Take(c) ==
    IF Len(text) > pos \/ ended THEN UNCHANGED src
    ELSE IF c = None THEN ended' = TRUE /\ UNCHANGED <<text, script, free>>
    ELSE /\ text' = Append(text, c)
         /\ script' = (IF script # <<>> THEN Tail(script) ELSE script)
         /\ free' = (IF script # <<>> THEN free ELSE free - 1)
         /\ UNCHANGED ended

\* Peekable::peek(): the item stays
Peek(c) == Take(c) /\ pos' = pos

\* Peekable::next(): the item, if any, is consumed
NextItem(c) == Take(c) /\ pos' = (IF c = None THEN pos ELSE pos + 1)

\* ---------------------------------------------------- the call stack
Top == stack[Len(stack)]

At(fn, pc) == panic = "none" /\ stack # <<>> /\ Top.fn = fn /\ Top.pc = pc

Frame(fn, pc, from, locals) == [fn |-> fn, pc |-> pc, from |-> from, ret |-> locals, key |-> <<>>]

Pop == SubSeq(stack, 1, Len(stack) - 1)

Goto(pc) == [stack EXCEPT ![Len(stack)].pc = pc]

\* the running function calls fn and continues at pc when fn returns
Call(pc, fn, fpc, from, locals) ==
    /\ stack' = Append(Goto(pc), Frame(fn, fpc, from, locals))
    /\ UNCHANGED <<ret, panic, log, results>>

\* the running function returns v, having consumed the input up to `to`
Return(v, to) ==
    /\ stack' = Pop
    /\ ret' = v
    /\ log' = Append(log, [fn |-> Top.fn, depth |-> Len(stack), from |-> Top.from,
                           to |-> to, ret |-> v])
    /\ UNCHANGED <<panic, results>>

\* panic!/assert!/unwrap: the parse is aborted and returns nothing
Panic(msg) == panic' = msg /\ UNCHANGED <<stack, ret, log, results>>

\* ------------------------------------------------------------ parse
\* Parser::parse, called by the owner of the parser
Parse ==
    /\ panic = "none" /\ stack = <<>>
    /\ stack' = <<Frame("parse", "ret", pos, <<>>), Frame("value", "start", pos, "")>>
    /\ UNCHANGED <<src, pos, sigma, ret, panic, log, results>>

ParseRet ==
    /\ At("parse", "ret")
    /\ results' = Append(results, ret)
    /\ stack' = <<>>
    /\ log' = Append(log, [fn |-> "parse", depth |-> 1, from |-> Top.from, to |-> pos,
                           ret |-> ret])
    /\ UNCHANGED <<src, pos, sigma, ret, panic>>

\* SkipSpace looking at the whitespace without consuming it
SkipSpaceStuck ==
    /\ At("skip_space", "loop")
    /\ \E c \in Items :
         /\ Peek(c)
         /\ IF IsSpace(c) THEN UNCHANGED stack ELSE stack' = Pop
         /\ UNCHANGED <<ret, panic, log, results>>
    /\ UNCHANGED sigma

\* ------------------------------------------------------- skip_space
SkipSpace ==
    /\ At("skip_space", "loop")
    /\ \E c \in Items :
         IF IsSpace(c)
         THEN NextItem(c) /\ UNCHANGED <<stack, ret, panic, log, results>>
         ELSE Peek(c) /\ stack' = Pop /\ UNCHANGED <<ret, panic, log, results>>
    /\ UNCHANGED sigma

\* ------------------------------------------------------------ value
ValueStart ==
    /\ At("value", "start")
    /\ Call("dispatch", "skip_space", "loop", pos, <<>>)
    /\ UNCHANGED <<src, pos, sigma>>

\* the function value() dispatches to on the lookahead c
Production(c) ==
    IF IsDigit(c) THEN "number"
    ELSE IF c = Quote THEN "string"
    ELSE IF c = "{" THEN "object"
    ELSE IF c = "[" THEN "array"
    ELSE IF c = "n" THEN "null"
    ELSE IF c = "t" THEN "parse_true"
    ELSE IF c = "f" THEN "parse_false"
    ELSE "none"

\* the first control point and the locals of a called production
Entry(fn) ==
    IF fn = "number" THEN [pc |-> "scan", ret |-> <<>>]
    ELSE IF fn = "object" THEN [pc |-> "open", ret |-> EmptyMap]
    ELSE IF fn \in {"string", "array"} THEN [pc |-> "open", ret |-> <<>>]
    ELSE [pc |-> "match", ret |-> 1]

ValueDispatch ==
    /\ At("value", "dispatch")
    /\ \E c \in Items :
         /\ Peek(c)
         /\ IF c = None
            THEN Panic("called Option::unwrap() on a None value")
            ELSE IF Production(c) = "none"
            THEN Panic("unexpected character")
            ELSE LET fn == Production(c)
                 IN  /\ stack' = Append([stack EXCEPT ![Len(stack)].pc = "result",
                                                      ![Len(stack)].ret = fn],
                                        Frame(fn, Entry(fn).pc, pos, Entry(fn).ret))
                     /\ UNCHANGED <<ret, panic, log, results>>
    /\ UNCHANGED sigma

ValueResult ==
    /\ At("value", "result")
    /\ Return(IF Top.ret = "string" THEN StringLiteral(ret.v) ELSE ret, pos)
    /\ UNCHANGED <<src, pos, sigma>>

\* NumberScan consuming the character that ends the run
NumberScanGreedy ==
    /\ At("number", "scan")
    /\ \E c \in Items :
         /\ NextItem(c)
         /\ IF c # None /\ IsNumChar(c)
            THEN stack' = [stack EXCEPT ![Len(stack)].ret = Append(@, c)]
            ELSE stack' = Goto("convert")
         /\ UNCHANGED <<ret, panic, log, results>>
    /\ UNCHANGED sigma

\* ----------------------------------------------------------- number
NumberScan ==
    /\ At("number", "scan")
    /\ \E c \in Items :
         IF c # None /\ IsNumChar(c)
         THEN /\ NextItem(c)
              /\ stack' = [stack EXCEPT ![Len(stack)].ret = Append(@, c)]
              /\ UNCHANGED <<ret, panic, log, results>>
         ELSE /\ Peek(c)
              /\ stack' = Goto("convert")
              /\ UNCHANGED <<ret, panic, log, results>>
    /\ UNCHANGED sigma

\* number.parse::<i32>(), else number.parse::<f32>(), else panic
Convert(s) ==
    IF ParseI32(s).ok THEN [ok |-> TRUE, node |-> IntLiteral(ParseI32(s).v)]
    ELSE IF ParseF32(s).ok THEN [ok |-> TRUE, node |-> FloatLiteral(ParseF32(s).v)]
    ELSE [ok |-> FALSE, node |-> NullLiteral]

NumberConvert ==
    /\ At("number", "convert")
    /\ IF Convert(Top.ret).ok
       THEN Return(Convert(Top.ret).node, pos)
       ELSE Panic("failed to parse number")
    /\ UNCHANGED <<src, pos, sigma>>

\* ----------------------------------------------------------- string
StringOpen ==
    /\ At("string", "open")
    /\ \E c \in Items : NextItem(c)
    /\ stack' = Goto("scan")
    /\ UNCHANGED <<sigma, ret, panic, log, results>>

\* StringScan with a '"' that follows a backslash taken as an escaped quote
StringScanEscapes ==
    /\ At("string", "scan")
    /\ \E c \in Items :
         /\ NextItem(c)
         /\ IF c = None \/ (IsStringEnd(c) /\ (Top.ret = <<>> \/ Top.ret[Len(Top.ret)] # "\\"))
            THEN Return(String(Top.ret), pos')
            ELSE /\ stack' = [stack EXCEPT ![Len(stack)].ret = Append(@, c)]
                 /\ UNCHANGED <<ret, panic, log, results>>
    /\ UNCHANGED sigma

StringScan ==
    /\ At("string", "scan")
    /\ \E c \in Items :
         /\ NextItem(c)
         /\ IF c = None \/ IsStringEnd(c)
            THEN Return(String(Top.ret), pos')
            ELSE /\ stack' = [stack EXCEPT ![Len(stack)].ret = Append(@, c)]
                 /\ UNCHANGED <<ret, panic, log, results>>
    /\ UNCHANGED sigma


\* ----------------------------------------------------------- object
ObjectOpen ==
    /\ At("object", "open")
    /\ \E c \in Items : NextItem(c)
    /\ stack' = Goto("loop")
    /\ UNCHANGED <<sigma, ret, panic, log, results>>

ObjectLoop ==
    /\ At("object", "loop")
    /\ Call("check", "skip_space", "loop", pos, <<>>)
    /\ UNCHANGED <<src, pos, sigma>>

\* if peek() != Some('"') { assert!(next() == Some('}')); break } else key = string()
ObjectCheck ==
    /\ At("object", "check")
    /\ \E c \in Items :
         IF c # Quote
         THEN /\ NextItem(c)
              /\ IF c = "}"
                 THEN Return(Object(Top.ret), pos')
                 ELSE Panic("assertion failed: self.json.next() == Some('}')")
         ELSE /\ Peek(c)
              /\ Call("key", "string", "open", pos, <<>>)
    /\ UNCHANGED sigma

ObjectKey ==
    /\ At("object", "key")
    /\ stack' = Append([stack EXCEPT ![Len(stack)].pc = "colon", ![Len(stack)].key = ret.v],
                       Frame("skip_space", "loop", pos, <<>>))
    /\ UNCHANGED <<src, pos, sigma, ret, panic, log, results>>

ObjectColon ==
    /\ At("object", "colon")
    /\ \E c \in Items :
         /\ NextItem(c)
         /\ IF c = ":"
            THEN Call("comma", "value", "start", pos', "")
            ELSE Panic("expect : ")
    /\ UNCHANGED sigma

\* ObjectComma skipping whitespace before the ',', as the array does
ObjectCommaSkipsSpace ==
    /\ At("object", "comma")
    /\ \E c \in Items :
         /\ NextItem(c)
         /\ IF IsSpace(c)
            THEN UNCHANGED <<stack, ret, panic, log, results>>
            ELSE IF c = ","
            THEN /\ stack' = [stack EXCEPT ![Len(stack)].pc = "loop",
                                           ![Len(stack)].ret = Insert(@, Top.key, ret)]
                 /\ UNCHANGED <<ret, panic, log, results>>
            ELSE Panic("expect , in parsing object")
    /\ UNCHANGED sigma

ObjectComma ==
    /\ At("object", "comma")
    /\ \E c \in Items :
         /\ NextItem(c)
         /\ IF c = ","
            THEN /\ stack' = [stack EXCEPT ![Len(stack)].pc = "loop",
                                           ![Len(stack)].ret = Insert(@, Top.key, ret)]
                 /\ UNCHANGED <<ret, panic, log, results>>
            ELSE Panic("expect , in parsing object")
    /\ UNCHANGED sigma

\* ------------------------------------------------------------ array
ArrayOpen ==
    /\ At("array", "open")
    /\ \E c \in Items : NextItem(c)
    /\ stack' = Goto("loop")
    /\ UNCHANGED <<sigma, ret, panic, log, results>>

ArrayLoop ==
    /\ At("array", "loop")
    /\ Call("check", "skip_space", "loop", pos, <<>>)
    /\ UNCHANGED <<src, pos, sigma>>

\* if peek() == Some(']') { next(); break } else ret.push(value())
ArrayCheck ==
    /\ At("array", "check")
    /\ \E c \in Items :
         IF c = "]"
         THEN NextItem(c) /\ Return(Array(Top.ret), pos')
         ELSE Peek(c) /\ Call("push", "value", "start", pos, "")
    /\ UNCHANGED sigma

ArrayPush ==
    /\ At("array", "push")
    /\ stack' = Append([stack EXCEPT ![Len(stack)].pc = "comma",
                                     ![Len(stack)].ret = Push(@, ret)],
                       Frame("skip_space", "loop", pos, <<>>))
    /\ UNCHANGED <<src, pos, sigma, ret, panic, log, results>>

\* ArrayComma with the ',' made optional before the closing bracket
ArrayCommaOptional ==
    /\ At("array", "comma")
    /\ \E c \in Items :
         /\ IF c = "," THEN NextItem(c) ELSE Peek(c)
         /\ stack' = Goto("loop")
         /\ UNCHANGED <<ret, panic, log, results>>
    /\ UNCHANGED sigma

ArrayComma ==
    /\ At("array", "comma")
    /\ \E c \in Items :
         /\ NextItem(c)
         /\ IF c = ","
            THEN stack' = Goto("loop") /\ UNCHANGED <<ret, panic, log, results>>
            ELSE Panic("expect , in parsing array")
    /\ UNCHANGED sigma

\* ------------------------------------------- null, parse_true, parse_false
\* one assert!(self.json.next() == Some(word[i])) of a literal's function
Keyword(fn, word, node, msg) ==
    /\ At(fn, "match")
    /\ \E c \in Items :
         /\ NextItem(c)
         /\ IF c # word[Top.ret] THEN Panic(msg)
            ELSE IF Top.ret = Len(word) THEN Return(node, pos')
            ELSE /\ stack' = [stack EXCEPT ![Len(stack)].ret = @ + 1]
                 /\ UNCHANGED <<ret, panic, log, results>>
    /\ UNCHANGED sigma

Null == Keyword("null", <<"n", "u", "l", "l">>, NullLiteral, "expect null")

ParseTrue == Keyword("parse_true", <<"t", "r", "u", "e">>, BoolLiteral(TRUE), "expect true")

ParseFalse ==
    Keyword("parse_false", <<"f", "a", "l", "s", "e">>, BoolLiteral(FALSE), "expect false")

\* ------------------------------------------------- the tests' inputs
In_test_parse_int_literal ==
    <<"1", "2", "3">>

In_test_parse_float_literal ==
    <<"1", "2", "3", ".", "4", "5">>

In_test_parse_string_literal ==
    <<Quote, "h", "e", "l", "l", "o", " ", "w", "o", "r", "l", "d", Quote>>

In_test_parse_null_literal ==
    <<"n", "u", "l", "l">>

In_test_parse_empty_object ==
    <<"{", "}">>

In_test_parse_simple_object ==
    <<"{", Quote, "k", "e", "y", Quote, ":", " ", "1", "2", "3", ",", "}">>

In_test_parse_multi_entry_object ==
    <<"{", Quote, "n", "a", "m", "e", Quote, ":", " ", Quote, "A", "l", "i", "c", "e",
      Quote, ",", " ", Quote, "a", "g", "e", Quote, ":", " ", "3", "0", ",", " ",
      Quote, "i", "s", "S", "t", "u", "d", "e", "n", "t", Quote, ":", " ", "f", "a",
      "l", "s", "e", ",", "}">>

In_test_parse_empty_array ==
    <<"[", "]">>

In_test_parse_simple_array ==
    <<"[", "1", ",", " ", "2", ",", " ", "3", ",", "]">>

In_test_parse_mixed_array ==
    <<"[", "1", ",", " ", Quote, "h", "e", "l", "l", "o", Quote, ",", " ", "n", "u",
      "l", "l", ",", " ", "3", ".", "1", "4", ",", "]">>

In_test_parse_nested_object ==
    <<"{", Quote, "d", "a", "t", "a", Quote, ":", " ", "{", Quote, "i", "d", Quote,
      ":", " ", "1", ",", " ", Quote, "n", "a", "m", "e", Quote, ":", " ", Quote, "T",
      "e", "s", "t", Quote, ",", "}", ",", "}">>

In_test_parse_nested_array ==
    <<"[", "1", ",", " ", "[", "2", ",", " ", "3", ",", "]", ",", " ", "4", ",", "]">>

Tests ==
    {In_test_parse_int_literal,
     In_test_parse_float_literal,
     In_test_parse_string_literal,
     In_test_parse_null_literal,
     In_test_parse_empty_object,
     In_test_parse_simple_object,
     In_test_parse_multi_entry_object,
     In_test_parse_empty_array,
     In_test_parse_simple_array,
     In_test_parse_mixed_array,
     In_test_parse_nested_object,
     In_test_parse_nested_array}

\* ---------------------------------------------------- specification
Next ==
    \/ Parse \/ ParseRet
    \/ SkipSpace
    \/ ValueStart \/ ValueDispatch \/ ValueResult
    \/ NumberScan \/ NumberConvert
    \/ StringOpen \/ StringScan
    \/ ObjectOpen \/ ObjectLoop \/ ObjectCheck \/ ObjectKey \/ ObjectColon \/ ObjectComma
    \/ ArrayOpen \/ ArrayLoop \/ ArrayCheck \/ ArrayPush \/ ArrayComma
    \/ Null \/ ParseTrue \/ ParseFalse

\* Parser::new over a scripted source, or over a free source that yields at
\* most n characters of the alphabet
InitWith(scripts, alphabet, n) ==
    /\ text = <<>> /\ pos = 0 /\ ended = FALSE
    /\ script \in scripts \cup {<<>>}
    /\ free = (IF script = <<>> THEN n ELSE 0)
    /\ sigma = alphabet
    /\ stack = <<>> /\ ret = NullLiteral /\ panic = "none"
    /\ log = <<>> /\ results = <<>>

Alphabet ==
    {"1", ".", Quote, "{", "}", "[", "]", ",", ":", " ", "\n", "\t", "\r", "-",
     "n", "t", "f", "x"}

Ex_two_values == <<"1", " ", "2">>

Ex_trailing_inputs ==
    {<<"1", "2", "x">>, <<"1", ".", "5", ",">>, <<Quote, "a", Quote, "b">>, <<"[", "]", "]">>,
     <<"{", "}", "}">>, <<"n", "u", "l", "l", "1">>, <<"t", "r", "u", "e", "-">>,
     <<" ", "f", "a", "l", "s", "e", " ", " ", "[", "]">>}

Init ==
    InitWith(Tests \cup {<<"t", "r", "u", "e">>, Ex_two_values} \cup Ex_trailing_inputs,
             Alphabet, MaxLen)

Spec == Init /\ [][Next]_vars


\* ------------------------------------------- alphabets of free sources
ArrAlphabet == {"1", "[", "]", ",", " "}

ObjAlphabet == {"{", "}", Quote, ":", ",", "1"}

NumAlphabet == {"0", "1", "9", ".", " "}

StrAlphabet == {Quote, "a", " ", "\n", "\t", "\\"}

InitArr == InitWith(Tests \cup {<<"t", "r", "u", "e">>}, ArrAlphabet, MaxLenArr)

SpecArr == InitArr /\ [][Next]_vars


\* ------------------------------------------ reading the log and the text
\* the whole input of a scripted source
Input == text \o script

Ws == {" ", "\n", "\t"}

\* the calls of fn made directly by the call log[i]
Kids(i, fn) ==
    {j \in 1..(i - 1) : /\ log[j].fn = fn
                        /\ log[j].depth = log[i].depth + 1
                        /\ log[j].from >= log[i].from /\ log[j].to <= log[i].to}

\* a set of numbers as the increasing sequence of its elements
Ordered(S) == [k \in 1..Cardinality(S) |-> CHOOSE j \in S : Cardinality({x \in S : x < j}) = k - 1]

\* the last position before p, and the first after p, that holds no whitespace
LastNonWsBefore(p) ==
    CHOOSE q \in 0..(p - 1) :
        /\ q = 0 \/ text[q] \notin Ws
        /\ \A r \in (q + 1)..(p - 1) : text[r] \in Ws

FirstNonWsAfter(p) ==
    CHOOSE q \in (p + 1)..(Len(text) + 1) :
        /\ q = Len(text) + 1 \/ text[q] \notin Ws
        /\ \A r \in (p + 1)..(q - 1) : text[r] \in Ws

CharAt(q) == IF q \in 1..Len(text) THEN text[q] ELSE None

\* the parse of the scripted input X returns node as its first value
Parses(X, node) ==
    Input = X => /\ results = <<>> \/ results[1] = node
                 /\ panic # "none" => results # <<>>

\* the parse of the scripted input X returns nothing
Fails(X) == Input = X => results = <<>>

\* ------------------------------------------------------------- C1
Ex_object_no_trailing_comma ==
    <<"{", Quote, "k", "e", "y", Quote, ":", " ", "1", "2", "3", "}">>

Ex_array_no_trailing_comma == <<"[", "1", ",", " ", "2", ",", " ", "3", "]">>

InitC1 ==
    \/ InitWith(Tests \cup {<<"t", "r", "u", "e">>, Ex_object_no_trailing_comma,
                            Ex_array_no_trailing_comma}, ArrAlphabet, MaxLenArr)
    \/ InitWith({}, ObjAlphabet, MaxLenObj)

SpecC1 == InitC1 /\ [][Next]_vars

IsEmptyNode(n) == IF n.tag = "Array" THEN n.v = <<>> ELSE DOMAIN n.v = {}

\* C1: every object or array that parsed is closed by its bracket, and the last
\* character before the closing bracket, whitespace apart, is the opening
\* bracket when it has no member and a ',' when it has one; every member is
\* followed by a ',' before the next member or the closing bracket.  The tests'
\* `{"key": 123,}` and `[1, 2, 3,]` parse to a one-entry Object and a 3-element
\* Array; the same texts without the last ',' return nothing.
C1_TrailingComma ==
    /\ \A i \in 1..Len(log) :
         log[i].fn \in {"object", "array"} =>
           LET e == log[i]
               q == LastNonWsBefore(e.to)
               members == Kids(i, "value")
           IN  /\ text[e.from + 1] = (IF e.fn = "object" THEN "{" ELSE "[")
               /\ text[e.to] = (IF e.fn = "object" THEN "}" ELSE "]")
               /\ IsEmptyNode(e.ret) <=> members = {}
               /\ members = {} <=> q = e.from + 1
               /\ members # {} => text[q] = ","
               /\ \A j \in members :
                    /\ FirstNonWsAfter(log[j].to) < e.to
                    /\ text[FirstNonWsAfter(log[j].to)] = ","
    /\ Parses(In_test_parse_simple_object,
              Object([k \in {<<"k", "e", "y">>} |-> IntLiteral(123)]))
    /\ Parses(In_test_parse_simple_array,
              Array(<<IntLiteral(1), IntLiteral(2), IntLiteral(3)>>))
    /\ Fails(Ex_object_no_trailing_comma)
    /\ Fails(Ex_array_no_trailing_comma)

\* a non-empty object and a non-empty array have parsed, each member with its ','
C1_Witness ==
    /\ Input = In_test_parse_nested_object
    /\ results = <<Object([k \in {<<"d", "a", "t", "a">>} |->
                     Object((<<"i", "d">> :> IntLiteral(1))
                            @@ (<<"n", "a", "m", "e">> :> StringLiteral(<<"T", "e", "s", "t">>)))])>>

\* ------------------------------------------------------------- C2
Ex_i32_max == <<"2", "1", "4", "7", "4", "8", "3", "6", "4", "7">>

Ex_i32_max_plus_1 == <<"2", "1", "4", "7", "4", "8", "3", "6", "4", "8">>

Ex_leading_zeros == <<"0", "0", "0", "0", "0", "0", "0", "0", "0", "0", "4", "2">>

Ex_eleven_digits == <<"1", "0", "0", "0", "0", "0", "0", "0", "0", "0", "0">>

InitC2 ==
    InitWith(Tests \cup {<<"t", "r", "u", "e">>, Ex_i32_max, Ex_i32_max_plus_1,
                         Ex_leading_zeros, Ex_eleven_digits}, NumAlphabet, MaxLenNum)

SpecC2 == InitC2 /\ [][Next]_vars

AllDigits(s) == s # <<>> /\ \A i \in 1..Len(s) : s[i] \in Digits

\* a <= b for two digit runs of one length
DigitsLeq(a, b) ==
    \A i \in 1..Len(a) : (\A j \in 1..(i - 1) : a[j] = b[j]) => DigitVal[a[i]] <= DigitVal[b[i]]

\* the run denotes a number of at most 2147483647
FitsI32(s) ==
    LET t == StripLeft(s) IN Len(t) < 10 \/ (Len(t) = 10 /\ DigitsLeq(t, Ex_i32_max))

RECURSIVE DecimalValue(_)
DecimalValue(s) ==
    IF s = <<>> THEN 0
    ELSE 10 * DecimalValue(SubSeq(s, 1, Len(s) - 1)) + DigitVal[s[Len(s)]]

\* the characters the call log[i] consumed
Consumed(i) == SubSeq(text, log[i].from + 1, log[i].to)

\* C2 as stated: every run of decimal digits parses to the IntLiteral of its
\* decimal value, never to a FloatLiteral, and never fails.
C2_EveryDigitRunIsInt ==
    /\ \A i \in 1..Len(log) :
         (log[i].fn \in {"number", "parse"} /\ AllDigits(Consumed(i))) =>
            /\ log[i].ret.tag = "IntLiteral"
            /\ log[i].ret.v = DecimalValue(Consumed(i))
    /\ (panic = "failed to parse number" => ~AllDigits(Top.ret))

\* C2 amended: every run of decimal digits that denotes a number of at most
\* 2147483647 parses to the IntLiteral of its decimal value, never to a
\* FloatLiteral, and no run of decimal digits fails.
C2_DigitRunInRangeIsInt ==
    /\ \A i \in 1..Len(log) :
         (log[i].fn \in {"number", "parse"} /\ AllDigits(Consumed(i)) /\ FitsI32(Consumed(i))) =>
            /\ log[i].ret.tag = "IntLiteral"
            /\ log[i].ret.v = DecimalValue(Consumed(i))
    /\ (panic = "failed to parse number" => ~AllDigits(Top.ret))

\* the largest i32 has been parsed from its ten digits
C2_Witness ==
    /\ Input = Ex_i32_max
    /\ results = <<IntLiteral(MaxI32)>>

\* ------------------------------------------------------ C3 and C6
Ex_backslash_quote == <<Quote, "a", "\\", Quote, "b", Quote>>

Ex_unterminated == <<Quote, "a", "b", "c">>

Ex_unterminated_key == <<"{", Quote, "a">>

Ex_unterminated_member == <<"[", Quote, "a">>

InitStr ==
    InitWith(Tests \cup {<<"t", "r", "u", "e">>, Ex_backslash_quote, Ex_unterminated,
                         Ex_unterminated_key, Ex_unterminated_member},
             StrAlphabet, MaxLenStr)

SpecStr == InitStr /\ [][Next]_vars

\* the call log[i] of string() ended on a closing quote
Terminated(i) == log[i].to >= log[i].from + 2 /\ text[log[i].to] = Quote

\* C3: a string whose closing '"' never comes is a failure: string() returns
\* only on a closing quote, and parse returns no Text (and no tree holding one)
\* made of the characters before the end of the input.
C3_UnterminatedStringFails ==
    \A i \in 1..Len(log) : log[i].fn = "string" => Terminated(i)

\* C6: string() consumes the opening '"' and returns exactly the characters up
\* to the first '"' after it, unchanged and in order, whitespace and backslashes
\* included; the closing quote is consumed and is not part of the result.  So
\* `"a\"b"` yields the text `a\`.
C6_StringVerbatim ==
    /\ \A i \in 1..Len(log) :
         log[i].fn = "string" =>
           LET f == log[i].from
               closers == {q \in (f + 2)..Len(text) : text[q] = Quote}
           IN  /\ text[f + 1] = Quote
               /\ closers # {} =>
                    LET q == CHOOSE x \in closers : \A y \in closers : x <= y
                    IN  /\ log[i].to = q
                        /\ log[i].ret = String(SubSeq(text, f + 2, q - 1))
    /\ Parses(Ex_backslash_quote, StringLiteral(<<"a", "\\">>))
    /\ Parses(In_test_parse_string_literal,
              StringLiteral(<<"h", "e", "l", "l", "o", " ", "w", "o", "r", "l", "d">>))

\* a string of a tab, a backslash and a newline has been returned whole
C6_Witness ==
    \E i \in 1..Len(log) :
        /\ log[i].fn = "string" /\ Terminated(i)
        /\ log[i].ret = String(<<"\t", "\\", "\n">>)

\* ------------------------------------------------------------- C4
Ex_duplicate_key ==
    <<"{", Quote, "a", Quote, ":", " ", "1", ",", " ", Quote, "a", Quote, ":", " ", "2", ",", "}">>

MemberKeys == {<<"a">>, <<"b">>}

MemberValues == {<<"1">>, <<"2">>, <<"{", Quote, "a", Quote, ":", "3", ",", "}">>}

MemberText(m) == <<Quote>> \o m[1] \o <<Quote, ":", " ">> \o m[2] \o <<",", " ">>

RECURSIVE MembersText(_)
MembersText(ms) == IF ms = <<>> THEN <<>> ELSE MemberText(Head(ms)) \o MembersText(Tail(ms))

\* the objects of up to MaxMembers members over the keys and values above
GeneratedObjects ==
    {<<"{">> \o MembersText(ms) \o <<"}">> :
        ms \in UNION {[1..n -> MemberKeys \X MemberValues] : n \in 1..MaxMembers}}

InitC4 ==
    InitWith(Tests \cup {<<"t", "r", "u", "e">>, Ex_duplicate_key} \cup GeneratedObjects,
             ObjAlphabet, MaxLenObj)

SpecC4 == InitC4 /\ [][Next]_vars

\* the text of a key, between its quotes
KeyText(j) == SubSeq(text, log[j].from + 2, log[j].to - 1)

\* C4: an object that parsed has one entry per distinct key of its text, and
\* each key holds the value of the last member of the text with that key;
\* `{"a": 1, "a": 2,}` yields the one entry "a" holding 2.
C4_LastWriteWins ==
    /\ \A i \in 1..Len(log) :
         log[i].fn = "object" =>
           LET keys == Ordered(Kids(i, "string"))
               vals == Ordered(Kids(i, "value"))
               n == Len(keys)
               m == log[i].ret.v
           IN  /\ Len(vals) = n
               /\ \A k \in 1..n : log[keys[k]].to <= log[vals[k]].from
               /\ \A k \in 1..(n - 1) : log[vals[k]].to <= log[keys[k + 1]].from
               /\ DOMAIN m = {KeyText(keys[k]) : k \in 1..n}
               /\ Cardinality(DOMAIN m) = Cardinality({KeyText(keys[k]) : k \in 1..n})
               /\ \A k \in 1..n :
                    (\A l \in (k + 1)..n : KeyText(keys[l]) # KeyText(keys[k]))
                        => m[KeyText(keys[k])] = log[vals[k]].ret
    /\ Parses(Ex_duplicate_key, Object([k \in {<<"a">>} |-> IntLiteral(2)]))

\* the object with the key "a" twice has parsed to a single entry
C4_Witness ==
    /\ Input = Ex_duplicate_key
    /\ results = <<Object([k \in {<<"a">>} |-> IntLiteral(2)])>>

\* ------------------------------------------------------------- C5
\* the ',' of the array log[i] itself: those outside its members
OwnCommas(i) ==
    {p \in (log[i].from + 1)..log[i].to :
        /\ text[p] = ","
        /\ \A j \in Kids(i, "value") : ~(log[j].from < p /\ p <= log[j].to)}

\* C5: an array that parsed has one element per member of its text, the i-th
\* element being the value of the i-th member from the left; a nested array or
\* object is one element of its parent, and its members are none of the
\* parent's.  `[1, [2, 3,], 4,]` yields 3 elements, the second an Array of 2.
C5_ArrayOrder ==
    /\ \A i \in 1..Len(log) :
         log[i].fn = "array" =>
           LET vals == Ordered(Kids(i, "value"))
               a == log[i].ret.v
           IN  /\ Len(a) = Len(vals)
               /\ Len(a) = Cardinality(OwnCommas(i))
               /\ \A k \in 1..Len(vals) : a[k] = log[vals[k]].ret
               /\ \A k \in 1..(Len(vals) - 1) : log[vals[k]].to <= log[vals[k + 1]].from
    /\ Parses(In_test_parse_nested_array,
              Array(<<IntLiteral(1), Array(<<IntLiteral(2), IntLiteral(3)>>), IntLiteral(4)>>))
    /\ Parses(In_test_parse_mixed_array,
              Array(<<IntLiteral(1), StringLiteral(<<"h", "e", "l", "l", "o">>), NullLiteral,
                      FloatLiteral([int |-> <<"3">>, frac |-> <<"1", "4">>])>>))

\* the nested array of the tests has parsed, the inner array in the second slot
C5_Witness ==
    /\ Input = In_test_parse_nested_array
    /\ results = <<Array(<<IntLiteral(1), Array(<<IntLiteral(2), IntLiteral(3)>>),
                           IntLiteral(4)>>)>>

\* ------------------------------------------------------------- C7
NumChars == Digits \cup {"."}

ParseCalls == {i \in 1..Len(log) : log[i].fn = "parse"}

\* C7: a parse that returns has consumed the whitespace before its value and
\* the characters of the value, a number being the longest run of digits and
\* dots, and nothing else; of what follows the parser has looked at no more than
\* the one character that ends a number, so what follows cannot make that parse
\* fail; the next parse starts where this one stopped.  On `1 2` the first parse
\* returns Integer 1 and the second Integer 2.
C7_TrailingInputUntouched ==
    /\ \A i \in ParseCalls :
         /\ Cardinality(Kids(i, "value")) = 1
         /\ \A j \in Kids(i, "value") :
              /\ log[j].from = log[i].from /\ log[j].to = log[i].to
              /\ log[j].ret = log[i].ret
              /\ \E p \in 1..(j - 1) :
                   /\ log[p].depth = 3 /\ log[p].from >= log[j].from /\ log[p].to = log[j].to
                   /\ log[p].from < log[p].to
                   /\ \A q \in (log[j].from + 1)..log[p].from : text[q] \in Ws
                   /\ text[log[p].from + 1] \notin Ws
                   /\ log[p].fn = "number" =>
                        /\ \A q \in (log[p].from + 1)..log[p].to : text[q] \in NumChars
                        /\ CharAt(log[p].to + 1) \notin NumChars
         /\ \A k \in ParseCalls :
              (k < i /\ \A l \in ParseCalls : ~(k < l /\ l < i)) => log[i].from = log[k].to
    /\ ParseCalls # {} => \E i \in ParseCalls : log[i].from = 0
    /\ Len(results) = Cardinality(ParseCalls)
    /\ (stack = <<>> /\ results # <<>>) =>
         /\ \E i \in ParseCalls : log[i].to = pos /\ log[i].ret = results[Len(results)]
         /\ Len(text) <= pos + 1
         /\ Len(text) = pos + 1 => results[Len(results)].tag \in {"IntLiteral", "FloatLiteral"}
    /\ Input = Ex_two_values =>
         /\ Len(results) <= 2
         /\ \A k \in 1..Len(results) : results[k] = IntLiteral(k)
         /\ panic # "none" => Len(results) = 2

\* both values of `1 2` have been returned, by two calls of parse
C7_Witness ==
    /\ Input = Ex_two_values
    /\ results = <<IntLiteral(1), IntLiteral(2)>>

\* ------------------------------------------------------------- C8
StartChars == Digits \cup {Quote, "{", "[", "n", "t", "f"}

\* the places of a value: the top level, an array's first and later members,
\* an object's member
ValuePlaces ==
    {<<>>, <<"[">>, <<"[", "1", ",">>, <<"{", Quote, "a", Quote, ":">>,
     <<"[", "{", Quote, "a", Quote, ":">>}

\* every place of a value, then no or some whitespace, then one character
DispatchInputs ==
    {place \o ws \o <<c>> : place \in ValuePlaces, ws \in {<<>>, <<" ", "\n", "\t">>},
                            c \in Alphabet}

InitC8 == InitWith(Tests \cup {<<"t", "r", "u", "e">>} \cup DispatchInputs, Alphabet, MaxLen)

SpecC8 == InitC8 /\ [][Next]_vars

\* value() is about to dispatch on a character that starts no value, or on the
\* end of the input
BadDispatch ==
    /\ At("value", "dispatch")
    /\ (IF Len(text) > pos THEN text[pos + 1] ELSE None) \notin StartChars

\* every value() that dispatched did so on a character that starts a value,
\* found after a run of spaces, newlines and tabs only
DispatchedOnStart ==
    /\ \A d \in 1..Len(stack) :
         (stack[d].fn = "value" /\ stack[d].pc = "result")
            => CharAt(FirstNonWsAfter(stack[d].from)) \in StartChars
    /\ \A i \in 1..Len(log) :
         log[i].fn = "value" => CharAt(FirstNonWsAfter(log[i].from)) \in StartChars
    /\ At("value", "dispatch") => (Len(text) > pos \/ ended)
    /\ panic # "none" => (stack # <<>> /\ Len(results) = Cardinality(ParseCalls))

\* C8: at the top level and at every member, when the character after the
\* spaces, newlines and tabs starts no value ('-', '.', ',', ']', '}', a carriage
\* return, ...) or the input is exhausted, value() fails; a failure ends the
\* parse, which returns nothing.
C8_DispatchFailure ==
    [][/\ DispatchedOnStart'
       /\ BadDispatch => /\ panic' \in {"unexpected character",
                                        "called Option::unwrap() on a None value"}
                         /\ results' = results
       /\ panic = "none"]_vars

\* the value of an object's member has failed on a carriage return that follows
\* skipped whitespace
C8_Witness ==
    /\ Input = <<"{", Quote, "a", Quote, ":", " ", "\n", "\t", "\r">>
    /\ script = <<>>
    /\ panic = "unexpected character"
    /\ pos = 8

\* ------------------------------------------------------------- C9
WsRuns == {<<>>, <<" ">>, <<"\n", "\t">>}

\* the one-member object and the one-element array, whitespace at every place
WsObject(w) ==
    <<"{">> \o w[1] \o <<Quote, "a", Quote>> \o w[2] \o <<":">> \o w[3] \o <<"1">>
        \o w[4] \o <<",">> \o w[5] \o <<"}">>

WsArray(w) == <<"[">> \o w[1] \o <<"1">> \o w[2] \o <<",">> \o w[3] \o <<"]">>

WsObjects == {WsObject(w) : w \in [1..5 -> WsRuns]}

WsArrays == {WsArray(w) : w \in [1..3 -> WsRuns]}

Ex_array_then_object ==
    <<"[", "1", " ", ",", "]", "{", Quote, "a", Quote, ":", " ", "1", " ", ",", "}">>

InitC9 ==
    InitWith(Tests \cup {<<"t", "r", "u", "e">>, Ex_array_then_object}
                 \cup WsObjects \cup WsArrays, ArrAlphabet, MaxLenArr)

SpecC9 == InitC9 /\ [][Next]_vars

\* the members of the object call in progress at depth d of the stack
MembersOf(d) ==
    {j \in 1..Len(log) : /\ log[j].fn = "value" /\ log[j].depth = d + 1
                         /\ log[j].from >= stack[d].from}

\* C9: in an object the ',' is the character right after the member's value:
\* no object gets past a member whose value is followed by whitespace, so
\* `{"a": 1 ,}` returns nothing, although whitespace before the key, before the
\* ':' and after it is skipped; in an array the whitespace between an element
\* and its ',' is skipped, so `[1 ,]` parses to a one-element Array.
C9_SpaceBeforeComma ==
    /\ \A i \in 1..Len(log) :
         /\ log[i].fn = "object" =>
              \A j \in Kids(i, "value") : CharAt(log[j].to + 1) = ","
         /\ log[i].fn = "array" =>
              \A j \in Kids(i, "value") : CharAt(FirstNonWsAfter(log[j].to)) = ","
    /\ \A d \in 1..Len(stack) :
         stack[d].fn = "object" =>
           \A j \in MembersOf(d) :
               \/ CharAt(log[j].to + 1) = ","
               \/ /\ stack[d].pc = "comma" /\ d = Len(stack)
                  /\ \A l \in MembersOf(d) : l <= j
    /\ Input \in WsObjects =>
         LET one == CHOOSE p \in 1..Len(Input) : Input[p] = "1"
             tight == Input[one + 1] = ","
         IN  /\ results # <<>> =>
                  (tight /\ results[1] = Object([k \in {<<"a">>} |-> IntLiteral(1)]))
             /\ (panic # "none" /\ tight) => results # <<>>
    /\ Input \in WsArrays =>
         /\ results = <<>> \/ results[1] = Array(<<IntLiteral(1)>>)
         /\ panic # "none" => results # <<>>
    /\ Input = Ex_array_then_object =>
            /\ results = <<>> \/ results = <<Array(<<IntLiteral(1)>>)>>
            /\ panic # "none" => (results # <<>> /\ panic = "expect , in parsing object")

\* `[1 ,]` has parsed to a one-element Array and the `{"a": 1 ,}` after it has
\* failed on the space before its ','
C9_Witness ==
    /\ Input = Ex_array_then_object
    /\ results = <<Array(<<IntLiteral(1)>>)>>
    /\ panic = "expect , in parsing object"
    /\ text[pos] = " "

\* ------------------------------------------------------------ C10
TermAlphabet == {"1", " ", Quote, "[", "]", "{", "}", ",", ":", "n", "u", "l"}

InitC10 == InitWith(Tests \cup {<<"t", "r", "u", "e">>}, TermAlphabet, MaxLen)

\* the steps of the parser itself: once called, parse runs on without waiting
Step ==
    \/ ParseRet
    \/ SkipSpace
    \/ ValueStart \/ ValueDispatch \/ ValueResult
    \/ NumberScan \/ NumberConvert
    \/ StringOpen \/ StringScan
    \/ ObjectOpen \/ ObjectLoop \/ ObjectCheck \/ ObjectKey \/ ObjectColon \/ ObjectComma
    \/ ArrayOpen \/ ArrayLoop \/ ArrayCheck \/ ArrayPush \/ ArrayComma
    \/ Null \/ ParseTrue \/ ParseFalse

SpecC10 == InitC10 /\ [][Next]_vars /\ WF_vars(Step)

\* the calls of value() in progress inside another call of value()
RecursionDepth ==
    IF stack = <<>> THEN 0
    ELSE Cardinality({d \in 1..Len(stack) : stack[d].fn = "value"}) - 1

\* the '{' and '[' consumed so far
Openers == Cardinality({p \in 1..pos : text[p] \in {"{", "["}})

\* the calls of object() and array() in progress that have consumed their bracket
OpenContainers ==
    Cardinality({d \in 1..Len(stack) : stack[d].fn \in {"object", "array"}
                                            /\ stack[d].pc # "open"})

Bounded ==
    /\ pos <= Len(text)
    /\ RecursionDepth <= Openers /\ Openers <= pos
    /\ OpenContainers <= Openers
    /\ \A i \in 1..Len(log) : log[i].from < log[i].to

\* the step is one iteration of the loop of skip_space, number or string, or one
\* iteration of the loop of object or array coming to its end
Iteration ==
    /\ stack # <<>> /\ Len(stack') = Len(stack)
    /\ stack'[Len(stack)].fn = Top.fn
    /\ \/ /\ Top.fn \in {"skip_space", "number", "string"}
          /\ Top.pc \in {"loop", "scan"} /\ stack'[Len(stack)].pc = Top.pc
       \/ /\ Top.fn \in {"object", "array"}
          /\ Top.pc = "comma" /\ stack'[Len(stack)].pc = "loop"

Progress ==
    /\ pos <= pos' /\ pos' <= pos + 1
    /\ Len(text') <= Len(text) + 1 /\ SubSeq(text', 1, Len(text)) = text
    /\ Iteration => pos' = pos + 1

\* C10: the cursor never moves back and no character is consumed twice; every
\* iteration of the loops of skip_space, number, string, object and array, and
\* every call of value() that returns, consumes at least one character; the
\* depth of the recursion is at most the number of '{' and '[' consumed so far,
\* so at most the length of the input; and a parse that was called stops, by
\* returning or by failing.
C10_Termination ==
    /\ [][Bounded' /\ Progress]_vars
    /\ (stack # <<>>) ~> (stack = <<>> \/ panic # "none")

\* value() runs inside value() inside value(), two brackets consumed
C10_Witness ==
    /\ RecursionDepth = 2 /\ Openers = 2
    /\ stack # <<>> /\ Top.fn = "number"

====
